---- MODULE Spec2Model ----
(***************************************************************************)
(* Branch credential broker of tidb_agent.py: the CSV credential store,    *)
(* the readiness wait, _ensure_admin_credential ("resolve"), the create    *)
(* tools and the delete_branch tool.  One process runs one operation at a  *)
(* time; every call to the TiDB Cloud control plane is one step whose      *)
(* response is chosen by the environment.  Spec is the broker, CreateSpec  *)
(* the create tools, StoreSpec and RaceSpec the store functions called     *)
(* directly by one process and by two.                                     *)
(***************************************************************************)
EXTENDS Integers, Sequences, FiniteSets, TLC

\* ------------------------------------------------------------------ bounds
\* Polls of one readiness wait.  The code's default is 20; the loop body does
\* not depend on the value, the model runs it with this budget.
MaxRetries == 2

\* ------------------------------------------------------- program constants
DefaultDelay == 10

\* ---------------------------------------------------------- value domains
None == "None"
NonePort == -1

\* Display names the server may report, and the ones operations are called with.
BranchNames == {"a", "b"}
ArgNames == {"a"}
BranchIds == {"b1", "b2"}
\* The branch id that operations taking an id are called with (the replies do
\* not depend on it).
CalledIds == {"b1"}
\* The id of the account's first cluster, and a cluster id passed explicitly.
DefaultCluster == "c1"
OtherCluster == "c2"
Clusters == {DefaultCluster, OtherCluster}
PublicHosts == {"h1", "h2"}
PublicPorts == {1234}
Databases == {"db"}
BranchStates == {"CREATING", "ACTIVE", "FAILED"}
Delays == {DefaultDelay}

\* Python truthiness of an optional string / an optional integer.
Truthy(s) == s # None /\ s # ""
TruthyPort(p) == p # NonePort /\ p # 0

\* --------------------------------------------------- control-plane replies
\* GET /clusters: the "clusters" list of a successful reply.  A cluster carries
\* its id as clusterId or as id.
Cluster(clusterId, id) == [clusterId |-> clusterId, id |-> id]

ClusterLists ==
    { <<>>,
      << Cluster(DefaultCluster, None) >>,
      << Cluster(None, DefaultCluster) >>,
      << Cluster(DefaultCluster, None), Cluster(OtherCluster, None) >> }

\* Mutant of FirstClusterId: the last cluster of the list is adopted.
LastClusterId(clusters) ==
    IF Truthy(clusters[Len(clusters)].clusterId)
      THEN clusters[Len(clusters)].clusterId ELSE clusters[Len(clusters)].id

\* Line 91: clusters[0].get("clusterId") or clusters[0].get("id")
FirstClusterId(clusters) ==
    IF Truthy(clusters[1].clusterId) THEN clusters[1].clusterId ELSE clusters[1].id

Branch(name, id) == [displayName |-> name, branchId |-> id]

\* GET /clusters/{id}/branches
BranchLists ==
    { <<>>,
      << Branch("a", "b1") >>,
      << Branch("b", "b2") >>,
      << Branch("a", "b1"), Branch("b", "b2") >>,
      << Branch("b", "b2"), Branch("a", "b1") >>,
      << Branch("a", "b1"), Branch("a", "b2") >>,
      << Branch("a", None) >> }

\* GET /clusters/{id}/branches/{branchId}: the fields the code reads.
BranchInfos ==
    [ displayName : BranchNames \cup {None},
      state       : BranchStates,
      host        : PublicHosts \cup {None},
      port        : PublicPorts \cup {NonePort} ]

\* The replies as far as one call site tells them apart: the readiness poll
\* reads only the state, the detail fetches only endpoints.public, the lookup
\* of delete_branch only the displayName.
PollReplies == { i \in BranchInfos : i.displayName = None /\ i.host = None /\ i.port = NonePort }
FetchReplies == { i \in BranchInfos : i.displayName = None /\ i.state = "ACTIVE" }
LookupReplies == { i \in BranchInfos : i.state = "ACTIVE" /\ i.host = None /\ i.port = NonePort }

\* POST /clusters/{id}/branches: the created branch, as far as the tools read
\* it (branchId, or id).
CreatedReplies == [ branchId : {None, "b1"}, id : {None, "b2"} ]

\* POST .../branches/{name}/users
AdminInfos == { [username |-> "u1", password |-> "p1"],
                [username |-> "u2", password |-> "p2"] }

\* ------------------------------------------------------------ environment
\* Module globals read from the environment at import time: _project_id and
\* DEFAULT_DATABASE.
Configs ==
    [ project_id : {None, "proj"},
      defaultDb  : Databases \cup {None} ]

\* SERVERLESS_CLUSTER_ID as read when the branch manager is built.
EnvClusters == {None, DefaultCluster}

\* ------------------------------------------------------- credential store
NoCred == [ branchName |-> "", clusterId |-> "", username |-> "", password |-> "",
            host |-> "", port |-> NonePort, database |-> "" ]

EmptyTable == [ k \in {} |-> NoCred ]

\* csv.DictWriter cell text: None is written as the empty cell, an integer
\* as its decimal digits.
CellOfStr(s) == IF s = None THEN "" ELSE s
CellOfPort(p) == CASE p = NonePort -> ""
                   [] p = 0 -> "0"
                   [] p = 1234 -> "1234"
                   [] OTHER -> "?"

\* int(row["port"]) if row.get("port") else None
PortOfCell(c) == CASE c = "" -> NonePort
                   [] c = "0" -> 0
                   [] c = "1234" -> 1234
                   [] OTHER -> NonePort

WriteRow(e) == [ branchName |-> CellOfStr(e.branchName),
                 clusterId  |-> CellOfStr(e.clusterId),
                 username   |-> CellOfStr(e.username),
                 password   |-> CellOfStr(e.password),
                 host       |-> CellOfStr(e.host),
                 port       |-> CellOfPort(e.port),
                 database   |-> CellOfStr(e.database) ]

\* Mutant of LoadRow: the port cell is never parsed, every port loads as None.
LoadRowNoPort(r) == [ branchName |-> r.branchName,
                      clusterId  |-> r.clusterId,
                      username   |-> r.username,
                      password   |-> r.password,
                      host       |-> r.host,
                      port       |-> NonePort,
                      database   |-> r.database ]

\* The record built from one row, lines 201-209.
LoadRow(r) == [ branchName |-> r.branchName,
                clusterId  |-> r.clusterId,
                username   |-> r.username,
                password   |-> r.password,
                host       |-> r.host,
                port       |-> PortOfCell(r.port),
                database   |-> r.database ]

\* Mutant of _load_admin_credentials: the file-exists test is inverted, an
\* existing file is read as the empty dict.
LoadNothing(file) == [ k \in {} |-> NoCred ]

\* _load_admin_credentials: the file's rows as a dict keyed by
\* (branchName, clusterId); a missing file is the empty dict.
_load_admin_credentials(file) ==
    [ k \in { << file[j].branchName, file[j].clusterId >> : j \in DOMAIN file }
        |-> LoadRow(file[k]) ]

\* _write_admin_credentials: the whole dict rewritten as rows.
_write_admin_credentials(records) ==
    [ k \in DOMAIN records |-> WriteRow(records[k]) ]

\* Mutant of StoredFields: username and password are swapped.
StoredFieldsSwapped(entry) ==
    [ branchName |-> entry.branchName, clusterId |-> entry.clusterId,
      username |-> entry.password, password |-> entry.username,
      host |-> entry.host, port |-> entry.port, database |-> entry.database ]

\* cache[key] = {...} of _store_admin_credential: the entry's seven stored
\* fields, without the provenance tag.
StoredFields(entry) ==
    [ branchName |-> entry.branchName, clusterId |-> entry.clusterId,
      username |-> entry.username, password |-> entry.password,
      host |-> entry.host, port |-> entry.port, database |-> entry.database ]

\* Mutant of Upsert: the table is replaced by the one entry.
UpsertAlone(records, entry) ==
    [ k \in { << entry.branchName, entry.clusterId >> } |-> StoredFields(entry) ]

\* Mutant of Upsert: only a key that is already present is updated.
UpsertExistingOnly(records, entry) ==
    LET key == << entry.branchName, entry.clusterId >>
    IN  [ k \in DOMAIN records |->
            IF k = key THEN StoredFields(entry) ELSE records[k] ]

Upsert(records, entry) ==
    LET key == << entry.branchName, entry.clusterId >>
    IN  [ k \in DOMAIN records \cup {key} |->
            IF k = key THEN StoredFields(entry) ELSE records[k] ]

\* Mutant of Remove: every record of the branch goes, whatever its cluster.
RemoveBranch(records, key) ==
    [ k \in { j \in DOMAIN records : j[1] # key[1] } |-> records[k] ]

\* Mutant of Remove: the del is lost, the table is rewritten as it was.
RemoveNothing(records, key) == records

Remove(records, key) == [ k \in DOMAIN records \ {key} |-> records[k] ]

\* Mutant of Usable: a host alone makes a cached record a hit.
UsableHostOnly(rec) == Truthy(rec.host)

\* Mutant of Usable: the port test is negated.
UsablePortNegated(rec) == Truthy(rec.host) /\ ~TruthyPort(rec.port)

\* The usable test of line 306.
Usable(rec) == Truthy(rec.host) /\ TruthyPort(rec.port)

\* _resolve_branch_id: the branchId of the first listed branch whose
\* displayName equals display_name, None when there is none.
RECURSIVE ScanBranches(_, _, _)
ScanBranches(branches, display_name, i) ==
    IF i > Len(branches) THEN None
    ELSE IF branches[i].displayName = display_name THEN branches[i].branchId
    ELSE ScanBranches(branches, display_name, i + 1)

\* Mutant of _resolve_branch_id: without a match the first listed branch is taken.
ResolveFirstBranch(branches, display_name) ==
    IF ScanBranches(branches, display_name, 1) # None
      THEN ScanBranches(branches, display_name, 1)
      ELSE IF Len(branches) > 0 THEN branches[1].branchId ELSE None

\* Mutant of _resolve_branch_id: a later match replaces an earlier one.
RECURSIVE ScanLast(_, _, _)
ScanLast(branches, display_name, i) ==
    IF i < 1 THEN None
    ELSE IF branches[i].displayName = display_name THEN branches[i].branchId
    ELSE ScanLast(branches, display_name, i - 1)

ResolveLastMatch(branches, display_name) ==
    ScanLast(branches, display_name, Len(branches))

_resolve_branch_id(branches, display_name) == ScanBranches(branches, display_name, 1)


\* ------------------------------------------------------------------ state
VARIABLES
    store,         \* branch_credentials.csv: rows keyed by (branchName, clusterId)
    written,       \* keys whose row was written by a resolve and not removed since
    cfg,           \* the process's environment (module globals)
    managerBuilt,  \* _branch_manager is not None
    cluster_id,    \* BranchManager.cluster_id, the memoized cluster id
    pc,            \* position of the running operation
    op,            \* the running (or last finished) operation
    arg,           \* its arguments
    loc,           \* its local variables
    cnt,           \* calls it has made so far, by kind
    hist,          \* what it has observed so far
    result,        \* how it ended: a returned payload or a raised error
    last,          \* per key, the entry of the latest direct store not deleted since
    race,          \* the two writer processes of the store race, per process
    _tidb_client   \* the pooled main-cluster client of run_sql (NoClient: None)

vars == << store, written, cfg, managerBuilt, cluster_id,
           pc, op, arg, loc, cnt, hist, result, last, race, _tidb_client >>

\* The variables that only the store-level specifications change.
aux == << last, race, _tidb_client >>

\* A database client: the connection parameters it was opened with.  kind
\* tells the main-cluster client of _build_tidb_client from a branch client
\* of _connect_branch_client.
NoClient == [ kind |-> "none", host |-> "", port |-> NonePort, username |-> "",
              password |-> "", database |-> "" ]

NoPayload == [ source |-> "", branchName |-> "", clusterId |-> "", username |-> "",
               password |-> "", host |-> "", port |-> NonePort, database |-> "" ]

\* server_name is not an argument: it is the display name the control plane
\* holds for the branch that delete_branch is called on.
NoArg == [ branch_name |-> None, cluster_id |-> None, branch_id |-> None,
           retries |-> 0, delay |-> 0, server_name |-> None,
           display_name |-> None, parent_id |-> None, parent_display_name |-> None,
           sql |-> None ]

NoCreated == [ branchId |-> None, id |-> None ]

NoLoc == [ resolved_cluster |-> None, cachedFound |-> FALSE, cached |-> NoCred,
           branch_id |-> None, attempt |-> 0,
           host |-> None, port |-> NonePort,
           admin_info |-> [username |-> "", password |-> ""],
           display_name |-> None, cache |-> EmptyTable,
           retries |-> 0, delay |-> 0,
           parent_id |-> None, created |-> NoCreated, client |-> NoClient ]

NoCnt == [ cluster |-> 0, list |-> 0, poll |-> 0, fetch |-> 0, lookup |-> 0,
           admin |-> 0, create |-> 0, remove |-> 0, read |-> 0, load |-> 0,
           write |-> 0, sleep |-> 0, reset |-> 0, connect |-> 0 ]

\* listed: whether the branch list that was returned held the display name
\* ("unknown" before the list call).  lastPoll: the state the latest readiness
\* poll reported.  firstCluster:
\* the id the first cluster of the latest GET /clusters reply carried.
\* firstMatch: the branchId of the first listed branch named like the parent.
\* sentName, sentParent: displayName and parentId of the create request.
\* swallowed: delete_branch caught an exception of its clean-up.
NoHist == [ fetchedCluster |-> FALSE, listed |-> "unknown", lastPoll |-> None,
            sawActive |-> FALSE, firstLacked |-> FALSE,
            secondHost |-> None, secondPort |-> NonePort,
            remoteDeleted |-> FALSE,
            firstCluster |-> None, firstMatch |-> None,
            sentName |-> None, sentParent |-> None, swallowed |-> FALSE,
            creds |-> NoPayload, stmtOn |-> NoClient, ranAs |-> None ]

NoResult == [ kind |-> "none", err |-> "", seconds |-> 0, rec |-> NoPayload,
              created |-> NoCreated ]

\* Direct callers of the store functions: the entries they pass and the
\* processes that run them.
NoLast == [ k \in {} |-> NoPayload ]
Procs == {1, 2}
NoWriter == [ pc |-> "idle", kind |-> "none", entry |-> NoPayload,
              key |-> << "", "" >>, cache |-> EmptyTable, snap |-> EmptyTable,
              lost |-> FALSE ]
NoRace == [ p \in Procs |-> NoWriter ]

Raised(kind, secs) == [ kind |-> "raise", err |-> kind, seconds |-> secs, rec |-> NoPayload,
                        created |-> NoCreated ]
Returned(rec) == [ kind |-> "return", err |-> "", seconds |-> 0, rec |-> rec,
                   created |-> NoCreated ]
\* json.dumps(created): the create tools return the control plane's payload.
ReturnedCreated(created) == [ kind |-> "return", err |-> "", seconds |-> 0,
                              rec |-> NoPayload, created |-> created ]

Init ==
    /\ store = EmptyTable
    /\ written = {}
    /\ cfg \in Configs
    /\ managerBuilt = FALSE
    /\ cluster_id = None
    /\ pc = "idle"
    /\ op = "none"
    /\ arg = NoArg
    /\ loc = NoLoc
    /\ cnt = NoCnt
    /\ hist = NoHist
    /\ result = NoResult
    /\ last = NoLast
    /\ race = NoRace
    /\ _tidb_client = NoClient

\* --------------------------------------------------------- process restart
\* The process exits between two operations and a new one imports the module:
\* the globals are read again from the environment, the branch manager and
\* its memoized cluster id are gone, the credentials file stays.
Restart ==
    /\ pc = "done"
    /\ cfg' \in Configs
    /\ managerBuilt' = FALSE
    /\ cluster_id' = None
    /\ pc' = "idle"
    /\ op' = "none"
    /\ arg' = NoArg
    /\ loc' = NoLoc
    /\ cnt' = NoCnt
    /\ hist' = NoHist
    /\ result' = NoResult
    /\ UNCHANGED << store, written >>
    /\ UNCHANGED << last, race >>
    /\ _tidb_client' = NoClient

\* ------------------------------------------------------------ tool entry
\* _get_branch_manager, the first statement of every operation: builds the
\* manager on first use, with the cluster id the environment configures.
\* (Auth material is taken to be configured.)
Begin(o, a, next) ==
    /\ pc \in {"idle", "done"}
    /\ op' = o
    /\ arg' = a
    /\ loc' = [NoLoc EXCEPT !.retries = a.retries, !.delay = a.delay,
                            !.branch_id = a.branch_id]
    /\ cnt' = NoCnt
    /\ hist' = NoHist
    /\ pc' = next
    /\ result' = NoResult
    /\ managerBuilt' = TRUE
    /\ IF managerBuilt THEN cluster_id' = cluster_id ELSE cluster_id' \in EnvClusters
    /\ UNCHANGED << store, written, cfg >>
    /\ UNCHANGED aux

\* Positions whose next statement is a BranchManager method that starts with
\* self._cluster().
ManagerCallPcs == {"r_list", "w_poll", "r_fetch1", "r_fetch2", "d_delete", "d_get",
                   "c_list", "c_create", "x_reset"}

\* BranchManager._cluster with no memoized id: _get_default_cluster fetches
\* the cluster list and adopts the first cluster's id.
GetDefaultCluster ==
    /\ cluster_id = None
    /\ \/ pc \in ManagerCallPcs
       \/ pc = "r_cluster" /\ arg.cluster_id = None
    /\ cnt' = [cnt EXCEPT !.cluster = @ + 1]
    /\ \/ /\ pc' = "done"
          /\ result' = Raised("transport", 0)
          /\ UNCHANGED << cluster_id, hist >>
       \/ \E clusters \in ClusterLists :
            /\ hist' = [hist EXCEPT
                          !.fetchedCluster = clusters # <<>>,
                          !.firstCluster =
                             IF clusters = <<>> THEN None
                             ELSE IF Head(clusters).clusterId # None
                                    THEN Head(clusters).clusterId ELSE Head(clusters).id]
            /\ IF clusters = <<>>
                 THEN /\ pc' = "done"
                      /\ result' = Raised("no_clusters", 0)
                      /\ UNCHANGED cluster_id
                 ELSE /\ cluster_id' = FirstClusterId(clusters)
                      /\ UNCHANGED << pc, result >>
    /\ UNCHANGED << store, written, cfg, managerBuilt, op, arg, loc >>
    /\ UNCHANGED aux


\* ------------------------------------------- _wait_for_branch_active (289-296)
\* Mutant of IsActive: every state but CREATING ends the wait.
IsNotCreating(info) == info.state # "CREATING"

\* Line 293: the test that ends the wait.
IsActive(info) == info.state = "ACTIVE"

\* Mutant of BudgetLeft: the loop runs once more than retries.
BudgetLeftInclusive(attempt, retries) == attempt <= retries

\* Line 291: for attempt in range(retries).
BudgetLeft(attempt, retries) == attempt < retries

\* Mutant of NextAttempt: the loop counter does not advance.
NextAttemptStuck(attempt) == attempt

\* Line 291: the next value of the loop counter.
NextAttempt(attempt) == attempt + 1

\* Line 296: the bound the timeout message carries.
TimeoutSeconds(retries, delay_seconds) == retries * delay_seconds

\* The operations that run _ensure_admin_credential: the resolver itself
\* (get_admin_user_for_branch) and run_sql_on_branch.
ResolveOps == {"resolve", "run_sql"}

\* Where the caller continues once the wait has returned.
AfterWait(o) == IF o \in ResolveOps THEN "r_fetch1" ELSE "done"

\* The tools that create a branch.
CreateOps == {"create", "create_from", "backup"}

\* What an operation that ends with the wait returns: the create tools the
\* created payload, the wait itself None.
Finished(o, created) ==
    IF o \in CreateOps THEN ReturnedCreated(created) ELSE Returned(NoPayload)

\* Mutant of AfterPollError: the exception is caught and the loop goes on.
AfterPollErrorRetry == "w_sleep"

\* Line 292: an exception of manager.get_branch leaves the loop and the function.
AfterPollError == "done"

\* Mutant of AfterTimeout: the raise is missing, the wait returns normally.
AfterTimeoutFallThrough(o) == AfterWait(o)

\* Line 296: the exhausted loop ends the operation with the timeout error.
AfterTimeout(o) == "done"

\* One iteration of the loop up to its test: manager.get_branch(branch_id)
\* raises, reports ACTIVE (return), or reports any other state (go to sleep).
WaitPoll ==
    /\ pc = "w_poll"
    /\ cluster_id # None
    /\ BudgetLeft(loc.attempt, loc.retries)
    /\ cnt' = [cnt EXCEPT !.poll = @ + 1]
    /\ \/ /\ pc' = AfterPollError
          /\ result' = Raised("transport", 0)
          /\ UNCHANGED hist
       \/ \E info \in PollReplies :
            /\ hist' = [hist EXCEPT !.lastPoll = info.state,
                                      !.sawActive = @ \/ info.state = "ACTIVE"]
            /\ IF IsActive(info)
                 THEN /\ pc' = AfterWait(op)
                      /\ result' = IF AfterWait(op) = "done"
                                     THEN Finished(op, loc.created) ELSE result
                 ELSE /\ pc' = "w_sleep"
                      /\ UNCHANGED result
    /\ UNCHANGED << store, written, cfg, managerBuilt, cluster_id, op, arg, loc >>
    /\ UNCHANGED aux

\* time.sleep(delay_seconds), then the next iteration.
WaitSleep ==
    /\ pc = "w_sleep"
    /\ cnt' = [cnt EXCEPT !.sleep = @ + 1]
    /\ loc' = [loc EXCEPT !.attempt = NextAttempt(@)]
    /\ pc' = "w_poll"
    /\ UNCHANGED << store, written, cfg, managerBuilt, cluster_id, op, arg,
                    hist, result >>
    /\ UNCHANGED aux

\* The loop is exhausted: raise RuntimeError("... not active after
\* {retries * delay_seconds} seconds.").
WaitTimeout ==
    /\ pc = "w_poll"
    /\ ~BudgetLeft(loc.attempt, loc.retries)
    /\ pc' = AfterTimeout(op)
    /\ result' = Raised("timeout", TimeoutSeconds(loc.retries, loc.delay))
    /\ UNCHANGED << store, written, cfg, managerBuilt, cluster_id, op, arg,
                    loc, cnt, hist >>
    /\ UNCHANGED aux

\* A direct call _wait_for_branch_active(manager, branch_id, retries=, delay_seconds=).
CallWait ==
    \E b \in CalledIds, r \in 0..MaxRetries, d \in Delays :
        Begin("wait", [NoArg EXCEPT !.branch_id = b, !.retries = r, !.delay = d], "w_poll")

\* ------------------------------------------ _ensure_admin_credential (299-342)
\* Mutant of Validate: the payload is returned unchecked.
ValidateNothing(payload) == Returned(payload)

\* Mutant of Validate: the port test is missing.
ValidateHostOnly(payload) ==
    IF ~Truthy(payload.host) THEN Raised("missing_host", 0)
    ELSE IF Truthy(cfg.defaultDb) /\ ~Truthy(payload.database)
           THEN Returned([payload EXCEPT !.database = cfg.defaultDb])
    ELSE Returned(payload)

\* Lines 335-342: the payload is returned only with host and port; a missing
\* database is filled from DEFAULT_DATABASE.
Validate(payload) ==
    IF ~Truthy(payload.host) THEN Raised("missing_host", 0)
    ELSE IF ~TruthyPort(payload.port) THEN Raised("missing_port", 0)
    ELSE IF Truthy(cfg.defaultDb) /\ ~Truthy(payload.database)
           THEN Returned([payload EXCEPT !.database = cfg.defaultDb])
    ELSE Returned(payload)

WithSource(src, rec) ==
    [ source |-> src, branchName |-> rec.branchName, clusterId |-> rec.clusterId,
      username |-> rec.username, password |-> rec.password,
      host |-> rec.host, port |-> rec.port, database |-> rec.database ]

\* get_admin_user_for_branch(branch_name, cluster_id) and run_sql_on_branch
\* (cluster_id = None) enter here.  The readiness wait runs with the default
\* budget.
CallResolve ==
    \E n \in ArgNames, c \in {None, OtherCluster} :
        Begin("resolve", [NoArg EXCEPT !.branch_name = n, !.cluster_id = c,
                                       !.retries = MaxRetries, !.delay = DefaultDelay],
              "r_cluster")

\* Where the caller of _ensure_admin_credential continues: run_sql_on_branch
\* goes on to connect with the returned record (line 485), the resolver tool
\* is finished; an exception ends either.
AfterResolve(o, res) ==
    IF o = "run_sql" /\ res.kind = "return" THEN "q_connect" ELSE "done"

\* Mutant of AfterCacheHit: a usable hit is stored again before it is returned.
AfterCacheHitRestore(o, res) == "r_store"

\* Lines 306-307: a usable cached record is returned at once.
AfterCacheHit(o, res) == AfterResolve(o, res)

\* Lines 302-307: the effective cluster, the project-id check, the cache read
\* and, on a usable hit, the return of the cached record.
ResolveLookup ==
    /\ pc = "r_cluster"
    /\ arg.cluster_id # None \/ cluster_id # None
    /\ LET resolved == IF arg.cluster_id # None THEN arg.cluster_id ELSE cluster_id
           table    == _load_admin_credentials(store)
           key      == << arg.branch_name, resolved >>
           found    == key \in DOMAIN table
           cached   == IF found THEN table[key] ELSE NoCred
       IN  IF ~Truthy(cfg.project_id)
             THEN /\ pc' = "done"
                  /\ result' = Raised("config", 0)
                  /\ loc' = [loc EXCEPT !.resolved_cluster = resolved]
                  /\ UNCHANGED cnt
             ELSE /\ cnt' = [cnt EXCEPT !.read = @ + 1]
                  /\ loc' = [loc EXCEPT !.resolved_cluster = resolved,
                                        !.cachedFound = found, !.cached = cached]
                  /\ IF found /\ Usable(cached)
                       THEN /\ result' = Validate(WithSource("cache", cached))
                            /\ pc' = AfterCacheHit(op, Validate(WithSource("cache", cached)))
                       ELSE /\ pc' = "r_list"
                            /\ UNCHANGED result
    /\ UNCHANGED << store, written, cfg, managerBuilt, cluster_id, op, arg, hist >>
    /\ UNCHANGED aux

\* Lines 309-311: _resolve_branch_id over the current branch list.
ResolveBranch ==
    /\ pc = "r_list"
    /\ cluster_id # None
    /\ cnt' = [cnt EXCEPT !.list = @ + 1]
    /\ \/ /\ pc' = "done"
          /\ result' = Raised("transport", 0)
          /\ UNCHANGED << loc, hist >>
       \/ \E branches \in BranchLists :
            LET id == _resolve_branch_id(branches, arg.branch_name)
            IN  /\ hist' = [hist EXCEPT !.listed =
                              IF \E i \in 1..Len(branches) :
                                     branches[i].displayName = arg.branch_name
                                THEN "present" ELSE "absent"]
                /\ IF id = None
                     THEN /\ pc' = "done"
                          /\ result' = Raised("not_found", 0)
                          /\ UNCHANGED loc
                     ELSE /\ pc' = "w_poll"
                          /\ loc' = [loc EXCEPT !.branch_id = id, !.attempt = 0]
                          /\ UNCHANGED result
    /\ UNCHANGED << store, written, cfg, managerBuilt, cluster_id, op, arg >>
    /\ UNCHANGED aux

\* Mutant of AfterFetch: the admin request is skipped.
AfterFetchSkipAdmin == "r_store"

\* Lines 313-315: the admin account is requested right after the first
\* detail fetch.
AfterFetch == "r_admin"

\* Lines 313-314: branch details, endpoints.public.
ResolveFetch ==
    /\ pc = "r_fetch1"
    /\ cluster_id # None
    /\ cnt' = [cnt EXCEPT !.fetch = @ + 1]
    /\ \/ /\ pc' = "done"
          /\ result' = Raised("transport", 0)
          /\ UNCHANGED << loc, hist >>
       \/ \E info \in FetchReplies :
            /\ loc' = [loc EXCEPT !.host = info.host, !.port = info.port]
            /\ hist' = [hist EXCEPT !.firstLacked =
                                       ~Truthy(info.host) \/ ~TruthyPort(info.port)]
            /\ pc' = AfterFetch
            /\ UNCHANGED result
    /\ UNCHANGED << store, written, cfg, managerBuilt, cluster_id, op, arg >>
    /\ UNCHANGED aux

\* Mutant of NeedsRefresh: only a missing host triggers the refresh.
NeedsRefreshHostOnly(host, port) == ~Truthy(host)

\* Lines 319-320: the endpoints are fetched again when host or port is missing.
NeedsRefresh(host, port) == ~Truthy(host) \/ ~TruthyPort(port)

\* Lines 315-320: create_admin_user_for_branch with the resolved cluster.
ResolveAdmin ==
    /\ pc = "r_admin"
    /\ cnt' = [cnt EXCEPT !.admin = @ + 1]
    /\ \/ /\ pc' = "done"
          /\ result' = Raised("transport", 0)
          /\ UNCHANGED loc
       \/ \E admin \in AdminInfos :
            /\ loc' = [loc EXCEPT !.admin_info = admin]
            /\ pc' = IF NeedsRefresh(loc.host, loc.port) THEN "r_fetch2" ELSE "r_store"
            /\ UNCHANGED result
    /\ UNCHANGED << store, written, cfg, managerBuilt, cluster_id, op, arg, hist >>
    /\ UNCHANGED aux

\* Mutant of Refreshed: the refresh only fills the fields that were missing.
RefreshedFillMissing(host, port, info) ==
    [ host |-> IF Truthy(host) THEN host ELSE info.host,
      port |-> IF TruthyPort(port) THEN port ELSE info.port ]

\* Line 322: the refreshed reply's endpoints replace the first fetch's.
Refreshed(host, port, info) == [ host |-> info.host, port |-> info.port ]

\* Lines 321-322: the single refresh of the endpoints.
ResolveRefresh ==
    /\ pc = "r_fetch2"
    /\ cluster_id # None
    /\ cnt' = [cnt EXCEPT !.fetch = @ + 1]
    /\ \/ /\ pc' = "done"
          /\ result' = Raised("transport", 0)
          /\ UNCHANGED << loc, hist >>
       \/ \E info \in FetchReplies :
            /\ loc' = [loc EXCEPT !.host = Refreshed(loc.host, loc.port, info).host,
                                  !.port = Refreshed(loc.host, loc.port, info).port]
            /\ hist' = [hist EXCEPT !.secondHost = info.host, !.secondPort = info.port]
            /\ pc' = "r_store"
            /\ UNCHANGED result
    /\ UNCHANGED << store, written, cfg, managerBuilt, cluster_id, op, arg >>
    /\ UNCHANGED aux

\* Lines 323-332: the entry assembled from the admin reply and the endpoints.
Entry ==
    [ source     |-> "created",
      branchName |-> arg.branch_name,
      clusterId  |-> loc.resolved_cluster,
      username   |-> loc.admin_info.username,
      password   |-> loc.admin_info.password,
      host       |-> loc.host,
      port       |-> loc.port,
      database   |-> IF Truthy(cfg.defaultDb) THEN cfg.defaultDb ELSE "" ]

\* Line 333, first half: _store_admin_credential loads the whole table.
ResolveStoreLoad ==
    /\ pc = "r_store"
    /\ cnt' = [cnt EXCEPT !.load = @ + 1]
    /\ loc' = [loc EXCEPT !.cache = _load_admin_credentials(store)]
    /\ pc' = "r_write"
    /\ UNCHANGED << store, written, cfg, managerBuilt, cluster_id, op, arg,
                    hist, result >>
    /\ UNCHANGED aux

\* Line 333, second half, and lines 335-342: the table is rewritten with the
\* entry under its key, then the payload is validated and returned.
ResolveStoreWrite ==
    /\ pc = "r_write"
    /\ cnt' = [cnt EXCEPT !.write = @ + 1]
    /\ store' = _write_admin_credentials(Upsert(loc.cache, Entry))
    /\ written' = written \cup { << Entry.branchName, Entry.clusterId >> }
    /\ loc' = [loc EXCEPT !.cache = EmptyTable]
    /\ pc' = AfterResolve(op, Validate(Entry))
    /\ result' = Validate(Entry)
    /\ UNCHANGED << cfg, managerBuilt, cluster_id, op, arg, hist >>
    /\ UNCHANGED aux


\* ------------------------------------------------- create tools (398-420, 455-466)
\* The name create_backup generates when none is given: backup-<UTC timestamp>.
BackupName == "backup-ts"

\* Line 147: display_name or f"backup-{...}".
BackupDisplayName(display_name) ==
    IF Truthy(display_name) THEN display_name ELSE BackupName

\* create_branch(display_name, parent_id), create_branch_from_display_name(
\* display_name, parent_display_name) and create_branch_backup(display_name).
\* The readiness wait runs with the default budget.
CallCreate ==
    \/ \E n \in ArgNames, parent \in {None, "b2"} :
         Begin("create", [NoArg EXCEPT !.display_name = n, !.parent_id = parent,
                                      !.retries = MaxRetries, !.delay = DefaultDelay],
               "c_create")
    \/ \E n \in ArgNames, parent \in BranchNames :
         Begin("create_from", [NoArg EXCEPT !.display_name = n,
                                           !.parent_display_name = parent,
                                           !.retries = MaxRetries, !.delay = DefaultDelay],
               "c_list")
    \/ \E n \in ArgNames \cup {None} :
         Begin("backup", [NoArg EXCEPT !.display_name = n,
                                      !.retries = MaxRetries, !.delay = DefaultDelay],
               "c_create")

\* Line 414: if not parent_id.
ParentMissing(parent_id) == ~Truthy(parent_id)

\* Lines 413-415: the parent's id is looked up by display name; without one
\* the tool raises before any create call.
CreateParent ==
    /\ pc = "c_list"
    /\ cluster_id # None
    /\ cnt' = [cnt EXCEPT !.list = @ + 1]
    /\ \/ /\ pc' = "done"
          /\ result' = Raised("transport", 0)
          /\ UNCHANGED << loc, hist >>
       \/ \E branches \in BranchLists :
            LET parent_id == _resolve_branch_id(branches, arg.parent_display_name)
                matches   == { i \in 1..Len(branches) :
                                 branches[i].displayName = arg.parent_display_name }
            IN  /\ hist' = [hist EXCEPT
                              !.listed = IF matches = {} THEN "absent" ELSE "present",
                              !.firstMatch =
                                 IF matches = {} THEN None
                                 ELSE branches[CHOOSE i \in matches :
                                                 \A j \in matches : i <= j].branchId]
                /\ IF ParentMissing(parent_id)
                     THEN /\ pc' = "done"
                          /\ result' = Raised("parent_not_found", 0)
                          /\ UNCHANGED loc
                     ELSE /\ pc' = "c_create"
                          /\ loc' = [loc EXCEPT !.parent_id = parent_id]
                          /\ UNCHANGED result
    /\ UNCHANGED << store, written, cfg, managerBuilt, cluster_id, op, arg >>
    /\ UNCHANGED aux

\* The parent_id the tool passes to BranchManager.create_branch.
PassedParent == IF op = "create" THEN arg.parent_id
                ELSE IF op = "create_from" THEN loc.parent_id ELSE None

\* Mutant of CreatedId: only branchId is read.
CreatedBranchIdOnly(created) == created.branchId

\* Lines 403, 417, 463: created.get("branchId") or created.get("id").
CreatedId(created) ==
    IF Truthy(created.branchId) THEN created.branchId ELSE created.id

\* Lines 108-121 and 402-405: the create call (parentId is sent only when
\* given), then the wait when the payload names the branch, else the return.
CreateRemote ==
    /\ pc = "c_create"
    /\ cluster_id # None
    /\ cnt' = [cnt EXCEPT !.create = @ + 1]
    /\ hist' = [hist EXCEPT
                  !.sentName = IF op = "backup" THEN BackupDisplayName(arg.display_name)
                               ELSE arg.display_name,
                  !.sentParent = IF Truthy(PassedParent) THEN PassedParent ELSE None]
    /\ \/ /\ pc' = "done"
          /\ result' = Raised("transport", 0)
          /\ UNCHANGED loc
       \/ \E created \in CreatedReplies :
            /\ loc' = [loc EXCEPT !.created = created, !.branch_id = CreatedId(created),
                                  !.attempt = 0]
            /\ IF Truthy(CreatedId(created))
                 THEN /\ pc' = "w_poll"
                      /\ UNCHANGED result
                 ELSE /\ pc' = "done"
                      /\ result' = ReturnedCreated(created)
    /\ UNCHANGED << store, written, cfg, managerBuilt, cluster_id, op, arg >>
    /\ UNCHANGED aux

\* --------------------------------------------------- delete_branch (423-436)
CallDelete ==
    \E b \in CalledIds, n \in BranchNames :
        Begin("delete", [NoArg EXCEPT !.branch_id = b, !.server_name = n], "d_delete")

\* Mutant of AfterCleanupError: without the try block the exception reaches
\* the caller.
CleanupErrorPropagates == Raised("transport", 0)

\* Lines 434-436: except Exception: pass, then the deletion result is returned.
AfterCleanupError == Returned(NoPayload)

\* Line 427: the remote delete; its error propagates.
DeleteRemote ==
    /\ pc = "d_delete"
    /\ cluster_id # None
    /\ cnt' = [cnt EXCEPT !.remove = @ + 1]
    /\ \/ /\ pc' = "done"
          /\ result' = Raised("transport", 0)
          /\ UNCHANGED hist
       \/ /\ pc' = "d_get"
          /\ hist' = [hist EXCEPT !.remoteDeleted = TRUE]
          /\ UNCHANGED result
    /\ UNCHANGED << store, written, cfg, managerBuilt, cluster_id, op, arg, loc >>
    /\ UNCHANGED aux

\* Lines 429-432 and 434-436: the display name is looked up after the remote
\* delete; an error here is swallowed and the deletion result returned.
DeleteLookup ==
    /\ pc = "d_get"
    /\ cluster_id # None
    /\ cnt' = [cnt EXCEPT !.lookup = @ + 1]
    /\ \/ /\ pc' = "done"
          /\ result' = AfterCleanupError
          /\ hist' = [hist EXCEPT !.swallowed = TRUE]
          /\ UNCHANGED loc
       \/ \E info \in { i \in LookupReplies : i.displayName \in {None, arg.server_name} } :
            /\ UNCHANGED hist
            /\ IF Truthy(info.displayName)
                 THEN /\ pc' = "d_load"
                      /\ loc' = [loc EXCEPT !.display_name = info.displayName]
                      /\ UNCHANGED result
                 ELSE /\ pc' = "done"
                      /\ result' = Returned(NoPayload)
                      /\ UNCHANGED loc
    /\ UNCHANGED << store, written, cfg, managerBuilt, cluster_id, op, arg >>
    /\ UNCHANGED aux

\* Lines 433 and 247-249: _delete_admin_credential(display_name,
\* manager._cluster()) loads the table and looks for the key.  The call is
\* inside the try block: when reading the file raises, the exception is
\* swallowed and the deletion result returned.
DeleteInvalidateLoad ==
    /\ pc = "d_load"
    /\ cnt' = [cnt EXCEPT !.load = @ + 1]
    /\ \/ /\ pc' = "done"
          /\ result' = AfterCleanupError
          /\ hist' = [hist EXCEPT !.swallowed = TRUE]
          /\ UNCHANGED loc
       \/ /\ UNCHANGED hist
          /\ LET table == _load_admin_credentials(store)
                 key   == << loc.display_name, cluster_id >>
             IN  IF key \in DOMAIN table
                   THEN /\ pc' = "d_write"
                        /\ loc' = [loc EXCEPT !.cache = table]
                        /\ UNCHANGED result
                   ELSE /\ pc' = "done"
                        /\ result' = Returned(NoPayload)
                        /\ UNCHANGED loc
    /\ UNCHANGED << store, written, cfg, managerBuilt, cluster_id, op, arg >>
    /\ UNCHANGED aux

\* Lines 250-251: the key is removed and the table rewritten.
DeleteInvalidateWrite ==
    /\ pc = "d_write"
    /\ cnt' = [cnt EXCEPT !.write = @ + 1]
    /\ store' = _write_admin_credentials(Remove(loc.cache, << loc.display_name, cluster_id >>))
    /\ written' = written \ { << loc.display_name, cluster_id >> }
    /\ loc' = [loc EXCEPT !.cache = EmptyTable]
    /\ pc' = "done"
    /\ result' = Returned(NoPayload)
    /\ UNCHANGED << cfg, managerBuilt, cluster_id, op, arg, hist >>
    /\ UNCHANGED aux

\* ------------------------------------------------- reset_branch tool (439-445)
\* reset_branch(branch_id); the readiness wait runs with the default budget.
CallReset ==
    \E b \in CalledIds :
        Begin("reset", [NoArg EXCEPT !.branch_id = b, !.retries = MaxRetries,
                                     !.delay = DefaultDelay], "x_reset")

\* Mutant of AfterReset: the tool returns without the readiness wait.
AfterResetNoWait == "done"

\* Line 444: _wait_for_branch_active(manager, branch_id) follows the reset.
AfterReset == "w_poll"

\* Line 443: manager.reset_branch(branch_id); its error propagates.
ResetRemote ==
    /\ pc = "x_reset"
    /\ cluster_id # None
    /\ cnt' = [cnt EXCEPT !.reset = @ + 1]
    /\ \/ /\ pc' = "done"
          /\ result' = Raised("transport", 0)
       \/ /\ pc' = AfterReset
          /\ result' = IF AfterReset = "done" THEN Returned(NoPayload) ELSE result
    /\ UNCHANGED << store, written, cfg, managerBuilt, cluster_id, op, arg, loc, hist >>
    /\ UNCHANGED aux

\* ------------------------------------- run_sql_on_branch and run_sql (372-389, 479-500)
\* Statements a caller passes, and those whose stripped, lower-cased text
\* starts with "select".
Statements == {"select 1", " SELECT 1", "update t"}

IsSelect(sql) == sql \in {"select 1", " SELECT 1"}

\* The client _build_tidb_client connects from the environment's settings.
MainClient == [ kind |-> "main", host |-> "h0", port |-> 4000, username |-> "root",
                password |-> "p0", database |-> "db" ]

\* The arguments _connect_branch_client passes to TiDBClient.connect.
BranchClient(creds) ==
    [ kind |-> "branch", host |-> creds.host, port |-> creds.port,
      username |-> creds.username, password |-> creds.password,
      database |-> IF Truthy(creds.database) THEN creds.database ELSE cfg.defaultDb ]

\* run_sql_on_branch(branch_name, sql): _ensure_admin_credential(branch_name,
\* None) comes first.
CallRunSqlOnBranch ==
    \E n \in ArgNames, q \in Statements :
        Begin("run_sql", [NoArg EXCEPT !.branch_name = n, !.sql = q,
                                       !.retries = MaxRetries, !.delay = DefaultDelay],
              "r_cluster")

\* Line 485, _connect_branch_client(creds): the host and port checks, then
\* TiDBClient.connect, which returns a new client or raises.
ConnectBranchClient ==
    /\ pc = "q_connect"
    /\ hist' = [hist EXCEPT !.creds = result.rec]
    /\ IF ~Truthy(result.rec.host)
         THEN /\ pc' = "done" /\ result' = Raised("missing_host", 0)
              /\ UNCHANGED << loc, cnt >>
         ELSE IF ~TruthyPort(result.rec.port)
         THEN /\ pc' = "done" /\ result' = Raised("missing_port", 0)
              /\ UNCHANGED << loc, cnt >>
         ELSE /\ cnt' = [cnt EXCEPT !.connect = @ + 1]
              /\ \/ /\ pc' = "done"
                    /\ result' = Raised("connect", 0)
                    /\ UNCHANGED loc
                 \/ /\ pc' = "q_exec"
                    /\ loc' = [loc EXCEPT !.client = BranchClient(result.rec)]
                    /\ UNCHANGED result
    /\ UNCHANGED << store, written, cfg, managerBuilt, cluster_id, op, arg >>
    /\ UNCHANGED aux

\* Mutant of StatementClient: the statement goes to the pooled client.
StatementClientPooled == _tidb_client

\* Lines 488 and 490: the client the statement runs on.
StatementClient == loc.client

\* Lines 486-500: the statement runs as a query or as an execute on the
\* client just opened; its error propagates.
RunStatement ==
    /\ pc = "q_exec"
    /\ hist' = [hist EXCEPT !.stmtOn = StatementClient,
                            !.ranAs = IF IsSelect(arg.sql) THEN "query" ELSE "execute"]
    /\ pc' = "done"
    /\ \/ result' = Raised("sql", 0)
       \/ result' = Returned([NoPayload EXCEPT !.branchName = arg.branch_name])
    /\ UNCHANGED << store, written, cfg, managerBuilt, cluster_id, op, arg, loc, cnt >>
    /\ UNCHANGED aux

\* run_sql(sql): _get_tidb_client builds the main-cluster client on first use
\* and keeps it in the module global; the statement runs on it.
RunSql ==
    /\ pc \in {"idle", "done"}
    /\ \E q \in Statements :
         /\ op' = "run_sql_main"
         /\ arg' = [NoArg EXCEPT !.sql = q]
         /\ loc' = NoLoc
         /\ \/ /\ _tidb_client = NoClient
               /\ cnt' = [NoCnt EXCEPT !.connect = 1]
               /\ hist' = NoHist
               /\ result' = Raised("connect", 0)
               /\ UNCHANGED _tidb_client
            \/ LET client == IF _tidb_client = NoClient THEN MainClient ELSE _tidb_client
               IN  /\ _tidb_client' = client
                   /\ cnt' = [NoCnt EXCEPT !.connect = IF _tidb_client = NoClient THEN 1 ELSE 0]
                   /\ hist' = [NoHist EXCEPT !.stmtOn = client,
                                             !.ranAs = IF IsSelect(q) THEN "query" ELSE "execute"]
                   /\ \/ result' = Raised("sql", 0)
                      \/ result' = Returned(NoPayload)
    /\ pc' = "done"
    /\ UNCHANGED << store, written, cfg, managerBuilt, cluster_id, last, race >>

\* ---------------------------------------------------------- specification
Next ==
    \/ Restart
    \/ CallResolve
    \/ CallDelete
    \/ CallWait
    \/ CallReset
    \/ GetDefaultCluster
    \/ WaitPoll
    \/ WaitSleep
    \/ WaitTimeout
    \/ ResetRemote
    \/ ResolveLookup
    \/ ResolveBranch
    \/ ResolveFetch
    \/ ResolveAdmin
    \/ ResolveRefresh
    \/ ResolveStoreLoad
    \/ ResolveStoreWrite
    \/ DeleteRemote
    \/ DeleteLookup
    \/ DeleteInvalidateLoad
    \/ DeleteInvalidateWrite

\* The credential broker: resolve, delete_branch, reset_branch and the
\* readiness wait, over process restarts.
Spec == Init /\ [][Next]_vars

\* The branch lifecycle controller: the create tools and their readiness
\* wait, over process restarts.  They never touch the credential store.
CreateNext ==
    \/ Restart
    \/ CallCreate
    \/ GetDefaultCluster
    \/ CreateParent
    \/ CreateRemote
    \/ WaitPoll
    \/ WaitSleep
    \/ WaitTimeout

CreateSpec == Init /\ [][CreateNext]_vars

\* _wait_for_branch_active called directly, with any budget.
WaitNext ==
    \/ Restart
    \/ CallWait
    \/ GetDefaultCluster
    \/ WaitPoll
    \/ WaitSleep
    \/ WaitTimeout

WaitSpec == Init /\ [][WaitNext]_vars

\* run_sql_on_branch and run_sql, over process restarts.
SqlNext ==
    \/ Restart
    \/ CallRunSqlOnBranch
    \/ RunSql
    \/ GetDefaultCluster
    \/ WaitPoll
    \/ WaitSleep
    \/ WaitTimeout
    \/ ResolveLookup
    \/ ResolveBranch
    \/ ResolveFetch
    \/ ResolveAdmin
    \/ ResolveRefresh
    \/ ResolveStoreLoad
    \/ ResolveStoreWrite
    \/ ConnectBranchClient
    \/ RunStatement

SqlSpec == Init /\ [][SqlNext]_vars

\* A statement of the running resolve: everything but the entry of a new call.
ResolveStep ==
    \/ GetDefaultCluster
    \/ WaitPoll
    \/ WaitSleep
    \/ WaitTimeout
    \/ ResolveLookup
    \/ ResolveBranch
    \/ ResolveFetch
    \/ ResolveAdmin
    \/ ResolveRefresh
    \/ ResolveStoreLoad
    \/ ResolveStoreWrite

LiveNext ==
    \/ CallResolve
    \/ ResolveStep

\* Resolve calls one after the other in one process.  The interpreter goes on
\* to the next statement of the running call, and every control-plane call,
\* sleep and file access comes back (returns or raises): a step of the running
\* call that stays possible is taken.
LiveSpec == Init /\ [][LiveNext]_vars /\ WF_vars(ResolveStep)


\* ------------------------------------------- the store functions, directly
\* Entries a caller passes to _store_admin_credential: host and port may be
\* missing (None), the port may be 0.
StoreEntries ==
    [ source : {"created"}, branchName : BranchNames, clusterId : Clusters,
      username : {"u1", "u2"}, password : {"p1"},
      host : {None, "h1"}, port : {NonePort, 0, 1234}, database : {""} ]

\* _store_admin_credential(entry), lines 224-237, as one call.
StoreCredential ==
    /\ \E entry \in StoreEntries :
         /\ store' = _write_admin_credentials(
                         Upsert(_load_admin_credentials(store), entry))
         /\ last' = [ k \in DOMAIN last \cup { << entry.branchName, entry.clusterId >> } |->
                        IF k = << entry.branchName, entry.clusterId >>
                          THEN entry ELSE last[k] ]
    /\ UNCHANGED << _tidb_client, written, cfg, managerBuilt, cluster_id, pc, op, arg, loc, cnt,
                    hist, result, race >>

\* _delete_admin_credential(branch_name, cluster_id), lines 245-251, as one
\* call: the table is rewritten only when the key is present.
DeleteCredential ==
    /\ \E branch_name \in BranchNames, cluster \in Clusters :
         LET cache == _load_admin_credentials(store)
             key   == << branch_name, cluster >>
         IN  /\ store' = IF key \in DOMAIN cache
                            THEN _write_admin_credentials(Remove(cache, key))
                            ELSE store
             /\ last' = [ k \in DOMAIN last \ {key} |-> last[k] ]
    /\ UNCHANGED << _tidb_client, written, cfg, managerBuilt, cluster_id, pc, op, arg, loc, cnt,
                    hist, result, race >>

StoreNext == StoreCredential \/ DeleteCredential

\* The store functions read none of the module globals: one environment.
StoreInit == Init /\ cfg = [project_id |-> "proj", defaultDb |-> "db"]

\* One process calling the two store functions in any order.
StoreSpec == StoreInit /\ [][StoreNext]_vars

\* ------------------------------------------- two processes on one store file
RaceEntries ==
    [ source : {"created"}, branchName : BranchNames, clusterId : {DefaultCluster},
      username : {"u1", "u2"}, password : {"p1"},
      host : {"h1"}, port : {1234}, database : {""} ]

\* Mutant of WriterBase: the rewrite starts from the file as it is now.
WriterBaseReload(cache, file) == _load_admin_credentials(file)

\* Lines 226-237 and 247-251: the dict that is modified and written back is
\* the one loaded at the start of the call, whatever the file holds by then.
WriterBase(cache, file) == cache

\* Line 226: a process enters _store_admin_credential and loads the table.
RaceStoreLoad(p) ==
    /\ race[p].pc = "idle"
    /\ \E entry \in RaceEntries :
         race' = [race EXCEPT ![p] =
                    [ pc |-> "loaded", kind |-> "store", entry |-> entry,
                      key |-> << entry.branchName, entry.clusterId >>,
                      cache |-> _load_admin_credentials(store), snap |-> store,
                      lost |-> FALSE ]]
    /\ UNCHANGED << _tidb_client, store, written, cfg, managerBuilt, cluster_id, pc, op, arg, loc,
                    cnt, hist, result, last >>

\* Lines 247-249: a process enters _delete_admin_credential and loads the
\* table; without the key the call is over.
RaceDeleteLoad(p) ==
    /\ race[p].pc = "idle"
    /\ \E branch_name \in BranchNames :
         LET cache == _load_admin_credentials(store)
             key   == << branch_name, DefaultCluster >>
         IN  race' = [race EXCEPT ![p] =
                        IF key \in DOMAIN cache
                          THEN [ pc |-> "loaded", kind |-> "delete", entry |-> NoPayload,
                                 key |-> key, cache |-> cache, snap |-> store,
                                 lost |-> FALSE ]
                          ELSE [ NoWriter EXCEPT !.kind = "delete", !.key = key ]]
    /\ UNCHANGED << _tidb_client, store, written, cfg, managerBuilt, cluster_id, pc, op, arg, loc,
                    cnt, hist, result, last >>

\* Lines 237 and 250-251: the process rewrites the whole file.  lost records
\* that the file held, under another key, something this process never loaded.
RaceWrite(p) ==
    /\ race[p].pc = "loaded"
    /\ LET base == WriterBase(race[p].cache, store)
       IN  store' = _write_admin_credentials(
                       IF race[p].kind = "store"
                         THEN Upsert(base, race[p].entry)
                         ELSE IF race[p].key \in DOMAIN base
                                THEN Remove(base, race[p].key) ELSE base)
    /\ race' = [race EXCEPT ![p].pc = "idle", ![p].cache = EmptyTable,
                            ![p].lost =
                               \E k \in DOMAIN store \ {race[p].key} :
                                   k \notin DOMAIN race[p].snap \/ store[k] # race[p].snap[k]]
    /\ UNCHANGED << _tidb_client, written, cfg, managerBuilt, cluster_id, pc, op, arg, loc,
                    cnt, hist, result, last >>

RaceNext ==
    \E p \in Procs : RaceStoreLoad(p) \/ RaceDeleteLoad(p) \/ RaceWrite(p)

\* Two processes, each running store mutations one after the other, their
\* loads and writes interleaved.
RaceSpec == StoreInit /\ [][RaceNext]_vars

\* ================================================================= claims
\* The key of the running resolve: (branch_name, resolved cluster).
Key == << arg.branch_name, loc.resolved_cluster >>

ResolveDone == pc = "done" /\ op = "resolve"

\* The store holds a row with host and port under the running resolve's key.
StoredUsable ==
    /\ Key \in DOMAIN store
    /\ store[Key].host # ""
    /\ store[Key].port \notin {"", "0"}

NoProvisioning == cnt.list = 0 /\ cnt.poll = 0 /\ cnt.fetch = 0 /\ cnt.admin = 0

HasHostPort(rec) == rec.host \notin {None, ""} /\ rec.port \notin {NonePort, 0}

\* The store changes only in a step that counts a write.
StoreChangesCounted == store' # store => cnt'.write = cnt.write + 1

\* ---- C1
\* C1 as stated: a resolve that reads a stored record with host and port for
\* its key makes no control-plane call at all, the cluster lookup included,
\* and returns exactly the stored record's fields with source = "cache".
C1_Original ==
    (ResolveDone /\ cnt.read = 1 /\ cnt.write = 0 /\ StoredUsable) =>
        /\ cnt.cluster = 0
        /\ NoProvisioning
        /\ result.kind = "return"
        /\ result.rec = WithSource("cache", LoadRow(store[Key]))

\* C1 (amended): a resolve that reaches the cache read (project id configured,
\* cluster id resolved) and finds a stored record with host and port makes no
\* list_branches, get_branch or create_admin_user_for_branch call; its only
\* possible control-plane call is one cluster-list fetch, made when no cluster
\* id was passed; it returns the stored record's fields with source = "cache",
\* an empty database being replaced by DEFAULT_DATABASE when that is set.
C1_CacheFirst ==
    (ResolveDone /\ cnt.read = 1 /\ cnt.write = 0 /\ StoredUsable) =>
        /\ NoProvisioning
        /\ cnt.cluster <= 1
        /\ (cnt.cluster = 1 => arg.cluster_id = None)
        /\ result.kind = "return"
        /\ result.rec.source = "cache"
        /\ result.rec.branchName = store[Key].branchName
        /\ result.rec.clusterId = store[Key].clusterId
        /\ result.rec.username = store[Key].username
        /\ result.rec.password = store[Key].password
        /\ result.rec.host = store[Key].host
        /\ result.rec.port = PortOfCell(store[Key].port)
        /\ result.rec.database =
              IF cfg.defaultDb # None /\ store[Key].database = ""
                THEN cfg.defaultDb ELSE store[Key].database

\* A cached record is returned after a cluster-list fetch, its empty database
\* filled from the default.
C1_Witness ==
    /\ ResolveDone /\ cnt.read = 1 /\ cnt.write = 0 /\ StoredUsable
    /\ result.kind = "return" /\ result.rec.source = "cache"
    /\ cnt.cluster = 1
    /\ store[Key].database = "" /\ result.rec.database = "db"

\* ---- C2
\* C2: a resolve that finds no cache entry for its key and returns has made
\* exactly one create_admin_user_for_branch call and exactly one store write,
\* which added exactly the entry keyed (branchName, clusterId) with the admin
\* call's credentials and left every other entry alone; the returned record
\* has source = "created".  No resolve makes more than one admin call or more
\* than one write.
C2_Step ==
    /\ op' = "resolve" => cnt'.admin <= 1 /\ cnt'.write <= 1
    /\ ( /\ pc # "done" /\ pc' = "done" /\ op' = "resolve"
         /\ cnt'.read = 1 /\ ~loc'.cachedFound /\ result'.kind = "return" )
       => /\ cnt'.admin = 1
          /\ cnt'.write = 1 /\ cnt.write = 0
          /\ result'.rec.source = "created"
          /\ Key \notin DOMAIN store
          /\ DOMAIN store' = DOMAIN store \cup {Key}
          /\ \A k \in DOMAIN store : store'[k] = store[k]
          /\ store'[Key].branchName = arg.branch_name
          /\ store'[Key].clusterId = loc.resolved_cluster
          /\ store'[Key].username = loc.admin_info.username
          /\ store'[Key].password = loc.admin_info.password
          /\ result'.rec.username = loc.admin_info.username
          /\ result'.rec.password = loc.admin_info.password

C2_FallbackProvisioning == [][C2_Step]_vars

C2_Witness ==
    /\ ResolveDone /\ cnt.read = 1 /\ ~loc.cachedFound
    /\ result.kind = "return" /\ result.rec.source = "created"
    /\ cnt.admin = 1 /\ cnt.write = 1

\* ---- C3
\* C3 as stated: once a resolve has written the key's record (and nothing has
\* removed it), a later resolve for the key makes no admin-creation call.
C3_Original ==
    (op = "resolve" /\ cnt.read = 1 /\ cnt.write = 0 /\ Key \in written) =>
        cnt.admin = 0

\* C3 (amended): once a resolve has written a record with non-empty host and
\* port for the key (and nothing has removed it), a later resolve for the key
\* makes no admin-creation call, whatever the control plane returns; the keys
\* written and not removed are exactly the keys of the store.
C3_IdempotentKey ==
    /\ written = DOMAIN store
    /\ (op = "resolve" /\ cnt.read = 1 /\ cnt.write = 0 /\ Key \in written /\ StoredUsable)
         => cnt.admin = 0 /\ cnt.list = 0

\* A second resolve for a key that an earlier resolve wrote returns from the
\* cache.
C3_Witness ==
    /\ ResolveDone /\ cnt.read = 1 /\ cnt.write = 0
    /\ Key \in written /\ StoredUsable
    /\ result.kind = "return" /\ cnt.admin = 0


\* ---- C4
\* C4: the readiness wait returns normally exactly at a poll that reports
\* ACTIVE, which is its last poll (no poll follows an ACTIVE one); when none
\* of its retries polls reports ACTIVE it raises the timeout error, whose
\* message carries retries * delay seconds.
C4_State ==
    /\ (pc = "done" /\ op = "wait" /\ result.kind = "return") =>
          /\ hist.lastPoll = "ACTIVE"
          /\ cnt.poll = loc.attempt + 1
          /\ cnt.poll <= arg.retries
    /\ hist.lastPoll = "ACTIVE" => pc \notin {"w_poll", "w_sleep"}
    /\ result.err = "timeout" =>
          /\ pc = "done"
          /\ ~hist.sawActive
          /\ cnt.poll = loc.retries
          /\ result.seconds = loc.retries * loc.delay
    /\ ( /\ pc = "done" /\ op = "wait" /\ cnt.poll = arg.retries /\ ~hist.sawActive
         /\ result.err \notin {"transport", "no_clusters"} )
       => result.err = "timeout" /\ result.seconds = arg.retries * arg.delay

C4_Step ==
    (hist.sawActive /\ pc \notin {"idle", "done"}) => cnt'.poll = cnt.poll

C4_ReadinessGate == []C4_State /\ [][C4_Step]_vars

\* A wait that returned at its second poll, and one that timed out.
C4_Witness ==
    /\ pc = "done" /\ op = "wait"
    /\ result.kind = "return" /\ cnt.poll = 2 /\ cnt.sleep = 1

C4_WitnessTimeout ==
    /\ pc = "done" /\ op = "wait" /\ arg.retries = MaxRetries
    /\ result.err = "timeout" /\ result.seconds = MaxRetries * DefaultDelay

\* ---- C5
\* C5: in a slow-path resolve whose first detail fetch lacked host or port and
\* whose second fetch, taken after the admin call, had both, the returned
\* record and the stored entry carry the second fetch's host and port and the
\* admin call's username and password.
C5_EndpointRecovery ==
    ( /\ ResolveDone /\ hist.firstLacked /\ cnt.fetch = 2
      /\ hist.secondHost \notin {None, ""} /\ hist.secondPort \notin {NonePort, 0} )
    => /\ cnt.admin = 1
       /\ result.kind = "return"
       /\ result.rec.host = hist.secondHost
       /\ result.rec.port = hist.secondPort
       /\ result.rec.username = loc.admin_info.username
       /\ result.rec.password = loc.admin_info.password
       /\ Key \in DOMAIN store
       /\ store[Key].host = hist.secondHost
       /\ PortOfCell(store[Key].port) = hist.secondPort
       /\ store[Key].username = loc.admin_info.username
       /\ store[Key].password = loc.admin_info.password

\* The first fetch had a host but no port, the second another host and a port.
C5_Witness ==
    /\ ResolveDone /\ hist.firstLacked /\ cnt.fetch = 2
    /\ hist.secondHost = "h2" /\ hist.secondPort = 1234
    /\ result.kind = "return" /\ result.rec.host = "h2"

\* ---- C6
\* C6 as stated: once delete_branch has succeeded for a branch, the store
\* holds no record under (the branch's display name, the cluster).
C6_Original ==
    (pc = "done" /\ op = "delete" /\ result.kind = "return") =>
        << arg.server_name, cluster_id >> \notin DOMAIN store

\* C6 (amended): once delete_branch has returned, its follow-up get_branch
\* having reported the branch's display name and its clean-up having raised
\* nothing, the store holds no record under (displayName, the manager's
\* cluster id); a resolve whose key has no record misses the cache and returns
\* nothing tagged "cache".  (When the lookup or the clean-up raises, or the
\* lookup reports no name, the record stays.)
C6_Invalidation ==
    /\ (pc = "done" /\ op = "delete" /\ result.kind = "return"
           /\ loc.display_name # None /\ ~hist.swallowed)
         => << loc.display_name, cluster_id >> \notin DOMAIN store
    /\ (op = "resolve" /\ cnt.read = 1 /\ cnt.write = 0 /\ Key \notin DOMAIN store)
         => ~loc.cachedFound /\ result.rec.source # "cache"

\* delete_branch found the record of the deleted branch and rewrote the store
\* without it.
C6_Witness ==
    /\ pc = "done" /\ op = "delete" /\ result.kind = "return"
    /\ cnt.write = 1 /\ loc.display_name = "a"
    /\ << "a", cluster_id >> \notin DOMAIN store

\* ---- C7
\* C7: a record that resolve returns, from the cache or freshly created, has a
\* non-empty host and a non-empty port; a resolve whose assembled entry lacks
\* either raises the missing-host or missing-port error instead.
C7_UsableOnly ==
    /\ (op = "resolve" /\ result.kind = "return") => HasHostPort(result.rec)
    /\ (ResolveDone /\ cnt.write = 1 /\ ~HasHostPort([host |-> loc.host, port |-> loc.port]))
         => result.kind = "raise" /\ result.err \in {"missing_host", "missing_port"}

\* An entry with a host and no port: resolve raised.
C7_Witness ==
    /\ ResolveDone /\ cnt.write = 1
    /\ loc.host = "h1" /\ loc.port = NonePort
    /\ result.err = "missing_port"

\* ---- C8
\* C8 as stated: every record of the store has a non-empty host and port.
C8_Original ==
    \A k \in DOMAIN store : store[k].host # "" /\ store[k].port \notin {"", "0"}

\* C8 (amended): the broker writes a record only in a slow-path resolve that
\* has made its admin-creation call, whether or not endpoint data was found:
\* every record of the store is filed under its own (branchName, clusterId)
\* and carries an admin call's username and password; a record may lack host
\* or port, and the resolve that wrote such a record raised.
C8_State ==
    /\ \A k \in DOMAIN store :
          /\ k = << store[k].branchName, store[k].clusterId >>
          /\ \E a \in AdminInfos :
                store[k].username = a.username /\ store[k].password = a.password
    /\ (ResolveDone /\ cnt.write = 1 /\ ~StoredUsable) => result.kind = "raise"

C8_Step ==
    (op = "resolve" /\ store' # store) =>
        /\ cnt.admin = 1
        /\ Key \in DOMAIN store'
        /\ store'[Key].username = loc.admin_info.username

C8_StoredAfterAdmin == []C8_State /\ [][C8_Step]_vars

\* The store holds a record without host, left by a resolve that raised.
C8_Witness ==
    /\ ResolveDone /\ cnt.write = 1 /\ result.kind = "raise"
    /\ Key \in DOMAIN store /\ store[Key].host = ""

\* ---- C9
\* C9: inside one resolve the cache read comes before every list_branches,
\* get_branch and create_admin_user_for_branch call; the admin call comes
\* before the store write, which stores its username and password; a resolve
\* that made no admin call writes nothing.
C9_State ==
    op = "resolve" =>
        /\ (cnt.list + cnt.poll + cnt.fetch + cnt.admin > 0 => cnt.read = 1)
        /\ (cnt.admin = 0 => cnt.write = 0 /\ cnt.load = 0)

C9_Step ==
    /\ cnt'.read > cnt.read => NoProvisioning
    /\ (op = "resolve" /\ cnt'.admin > cnt.admin) => cnt.read = 1 /\ cnt.write = 0
    /\ (op = "resolve" /\ cnt'.write > cnt.write) =>
          /\ cnt.admin = 1
          /\ store'[Key].username = loc.admin_info.username
          /\ store'[Key].password = loc.admin_info.password

C9_Ordering == []C9_State /\ [][C9_Step]_vars

C9_Witness ==
    /\ ResolveDone /\ cnt.read = 1 /\ cnt.list = 1 /\ cnt.poll >= 1
    /\ cnt.fetch >= 1 /\ cnt.admin = 1 /\ cnt.write = 1

\* ---- C10
\* C10: a slow-path resolve whose branch list holds no branch with the display
\* name raises the not-found error at once: no branch is created, no poll, no
\* detail fetch, no admin call, and the store is not touched.
C10_State ==
    (op = "resolve" /\ hist.listed = "absent") =>
        /\ pc = "done"
        /\ result.kind = "raise" /\ result.err = "not_found"
        /\ cnt.create = 0 /\ cnt.poll = 0 /\ cnt.sleep = 0 /\ cnt.fetch = 0
        /\ cnt.admin = 0 /\ cnt.load = 0 /\ cnt.write = 0

C10_Step ==
    /\ hist'.listed = "absent" => store' = store
    /\ StoreChangesCounted

C10_NotFound == []C10_State /\ [][C10_Step]_vars

\* The list held only another branch while the store held a record.
C10_Witness ==
    /\ ResolveDone /\ hist.listed = "absent" /\ result.err = "not_found"
    /\ cnt.list = 1 /\ DOMAIN store # {}

\* ---- C11
CreateDone == pc = "done" /\ op \in CreateOps

\* The created payload names the branch (branchId or id).
CreatedNamed == loc.created.branchId # None \/ loc.created.id # None

C11_State ==
    /\ (CreateDone /\ result.kind = "return") =>
          /\ cnt.create = 1
          /\ result.created = loc.created
          /\ CreatedNamed =>
                /\ loc.branch_id = IF loc.created.branchId # None
                                     THEN loc.created.branchId ELSE loc.created.id
                /\ hist.sawActive /\ hist.lastPoll = "ACTIVE"
                /\ cnt.poll >= 1 /\ cnt.sleep = cnt.poll - 1
                /\ cnt.poll <= arg.retries
          /\ ~CreatedNamed => cnt.poll = 0 /\ cnt.sleep = 0
    /\ (CreateDone /\ cnt.sleep = arg.retries /\ arg.retries > 0) =>
          /\ result.kind = "raise" /\ result.err = "timeout"
          /\ result.seconds = arg.retries * arg.delay
    /\ (CreateDone /\ result.kind = "raise" /\ result.err = "timeout") =>
          /\ ~hist.sawActive
          /\ cnt.poll = arg.retries /\ cnt.sleep = arg.retries

\* A poll that did not report ACTIVE never ends a create tool with a return.
C11_Step ==
    (op \in CreateOps /\ cnt'.poll = cnt.poll + 1 /\ op' = op
        /\ result'.kind = "return") => hist'.lastPoll = "ACTIVE"

C12_State ==
    op = "create_from" =>
        /\ cnt.create <= 1 /\ cnt.list <= 1
        /\ cnt.create = 1 =>
              /\ hist.listed = "present"
              /\ hist.sentParent = hist.firstMatch
              /\ hist.sentParent \in BranchIds
              /\ hist.sentName = arg.display_name
        /\ hist.listed = "absent" =>
              /\ pc = "done"
              /\ result.kind = "raise" /\ result.err = "parent_not_found"
              /\ cnt.create = 0 /\ cnt.poll = 0

\* The create call follows the list call that found the parent.
C12_Step ==
    (op = "create_from" /\ cnt'.create > cnt.create) =>
        cnt.list = 1 /\ hist.listed = "present"

C12_ParentResolution == []C12_State /\ [][C12_Step]_vars

\* The parent's name was listed: the create call was issued with the id of
\* the first branch carrying it, and the tool returned.
C12_Witness ==
    /\ op = "create_from" /\ cnt.create = 1
    /\ arg.parent_display_name = "a"
    /\ hist.sentParent = "b1"
    /\ pc = "done" /\ result.kind = "return"

\* ---- C13
\* The row csv.DictWriter writes for an entry: None becomes the empty cell, the
\* port its decimal digits.
RowOfEntry(e) ==
    [ branchName |-> e.branchName, clusterId |-> e.clusterId,
      username |-> e.username, password |-> e.password,
      host |-> IF e.host = None THEN "" ELSE e.host,
      port |-> IF e.port = NonePort THEN "" ELSE IF e.port = 0 THEN "0" ELSE "1234",
      database |-> e.database ]

\* C13: after any sequence of _store_admin_credential and
\* _delete_admin_credential calls the store holds at most one record per
\* (branchName, clusterId), for exactly the keys whose latest store was not
\* followed by a delete, and that record is the one the latest store wrote.
C13_OneRecordPerKey ==
    /\ DOMAIN store = DOMAIN last
    /\ \A k \in DOMAIN store : store[k] = RowOfEntry(last[k])
    /\ \A k1, k2 \in DOMAIN store :
          << store[k1].branchName, store[k1].clusterId >>
            = << store[k2].branchName, store[k2].clusterId >> => k1 = k2

\* Branch a has a record under each cluster, with different credentials, one
\* of them without host and port; branch b was stored and deleted or never
\* stored under the default cluster.
C13_Witness ==
    /\ << "a", DefaultCluster >> \in DOMAIN store
    /\ << "a", OtherCluster >> \in DOMAIN store
    /\ store[<< "a", DefaultCluster >>].username = "u2"
    /\ store[<< "a", DefaultCluster >>].host = ""
    /\ store[<< "a", DefaultCluster >>].port = "0"
    /\ store[<< "a", OtherCluster >>].username = "u1"
    /\ << "b", DefaultCluster >> \notin DOMAIN store
    /\ << "b", OtherCluster >> \in DOMAIN store

\* ---- C14
\* C14: once the remote delete call of delete_branch has succeeded, the tool
\* returns the deletion result, also when the display-name lookup or the cache
\* removal raised (the exception is swallowed); when the remote delete call
\* itself fails the error reaches the caller, nothing else is attempted and
\* the credential store is unchanged.
C14_State ==
    /\ (pc = "done" /\ op = "delete" /\ hist.remoteDeleted) => result.kind = "return"
    /\ (op = "delete" /\ hist.swallowed) =>
          pc = "done" /\ hist.remoteDeleted /\ result.kind = "return"
    /\ (pc = "done" /\ op = "delete" /\ ~hist.remoteDeleted) =>
          /\ result.kind = "raise"
          /\ result.err \in {"transport", "no_clusters"}
          /\ cnt.lookup = 0 /\ cnt.load = 0 /\ cnt.write = 0

C14_Step ==
    (op' = "delete" /\ ~hist'.remoteDeleted) => store' = store

C14_BestEffort == []C14_State /\ [][C14_Step]_vars

\* The remote delete succeeded, reading the credentials file raised: the tool
\* returned and the branch's record is still stored.
C14_Witness ==
    /\ pc = "done" /\ op = "delete" /\ result.kind = "return"
    /\ hist.remoteDeleted /\ hist.swallowed /\ cnt.load = 1
    /\ << loc.display_name, cluster_id >> \in DOMAIN store

\* ---- C15
\* C15: a cluster-list fetch happens only while no cluster id is configured or
\* memoized; it adopts the first listed cluster's id, and an empty list raises
\* and memoizes nothing.  Once a cluster id is there, no operation of the
\* process fetches the cluster list again and the id stays as it is until the
\* process ends; every branch call is issued with a cluster id resolved.
C15_State ==
    /\ cnt.cluster <= 1
    /\ (result.kind = "raise" /\ result.err = "no_clusters") =>
          cluster_id = None /\ cnt.cluster = 1 /\ pc = "done"
    /\ hist.fetchedCluster => cluster_id = hist.firstCluster /\ cluster_id # None

C15_Step ==
    /\ cnt'.cluster = cnt.cluster + 1 =>
          /\ cluster_id = None
          /\ cluster_id' \in {None, hist'.firstCluster}
          /\ cluster_id' = None => pc' = "done" /\ result'.kind = "raise"
    /\ (cluster_id # None /\ pc' # "idle") =>
          /\ cluster_id' = cluster_id
          /\ cnt'.cluster <= cnt.cluster
    /\ (cnt'.list > cnt.list \/ cnt'.poll > cnt.poll \/ cnt'.fetch > cnt.fetch
          \/ cnt'.remove > cnt.remove \/ cnt'.lookup > cnt.lookup) =>
          cluster_id # None /\ cluster_id' = cluster_id

C15_ClusterMemo == []C15_State /\ [][C15_Step]_vars

\* A resolve fetched the cluster list once and then made its list call, two
\* polls and two detail fetches with the adopted id.
C15_Witness ==
    /\ ResolveDone /\ hist.fetchedCluster /\ cnt.cluster = 1
    /\ cluster_id = DefaultCluster
    /\ cnt.list = 1 /\ cnt.poll = 2 /\ cnt.fetch = 2

\* ---- C16
\* C16: when a process rewrites the store, the file becomes the table that
\* process loaded at the start of its call with its one key set or removed,
\* whatever the other process has written since that load: the last writer
\* wins, and a record written by the other process in between is lost.
C16_Step ==
    \A p \in Procs :
        (race[p].pc = "loaded" /\ race'[p].pc = "idle") =>
            /\ \A k \in (DOMAIN store' \cup DOMAIN race[p].snap) \ {race[p].key} :
                  /\ k \in DOMAIN store' /\ k \in DOMAIN race[p].snap
                  /\ store'[k] = race[p].snap[k]
            /\ race[p].kind = "store" =>
                  /\ race[p].key \in DOMAIN store'
                  /\ store'[race[p].key] = RowOfEntry(race[p].entry)
            /\ race[p].kind = "delete" => race[p].key \notin DOMAIN store'

C16_LastWriterWins == [][C16_Step]_vars

\* A lost update: process 1 stored branch a after process 2 had loaded the
\* table, then process 2 wrote its table with branch b; branch a's record is
\* gone though nobody deleted it.
C16_Witness ==
    /\ race[1].pc = "idle" /\ race[1].kind = "store"
    /\ race[1].key = << "a", DefaultCluster >>
    /\ race[2].pc = "idle" /\ race[2].kind = "store" /\ race[2].lost
    /\ race[2].key = << "b", DefaultCluster >>
    /\ << "a", DefaultCluster >> \notin DOMAIN store
    /\ << "b", DefaultCluster >> \in DOMAIN store

\* ---- C17
\* C17: in a slow-path resolve get_branch is called for the details once after
\* the readiness wait has returned and before the admin call, and at most once
\* after it; the second call is made exactly when the first reply lacked a
\* public host or port, and no fetch or poll follows it.
C17_State ==
    op = "resolve" =>
        /\ cnt.fetch <= 2
        /\ cnt.fetch >= 1 => hist.sawActive /\ hist.lastPoll = "ACTIVE"
        /\ cnt.admin = 0 => cnt.fetch <= 1
        /\ cnt.admin = 1 => cnt.fetch >= 1
        /\ cnt.fetch = 2 => cnt.admin = 1 /\ hist.firstLacked
        /\ pc = "r_fetch2" => cnt.fetch = 1 /\ hist.firstLacked
        /\ (pc \in {"r_store", "r_write"} \/ cnt.write = 1) =>
              (cnt.fetch = 2 <=> hist.firstLacked)

C17_Step ==
    /\ (op = "resolve" /\ cnt.fetch >= 1) => cnt'.poll <= cnt.poll /\ cnt'.sleep <= cnt.sleep
    /\ (op = "resolve" /\ cnt.fetch = 2) => cnt'.fetch \in {0, 2}

C17_SingleRefresh == []C17_State /\ [][C17_Step]_vars

\* The first reply had host and port: the resolve returned after one detail
\* fetch.
C17_Witness ==
    /\ ResolveDone /\ result.kind = "return" /\ result.rec.source = "created"
    /\ ~hist.firstLacked /\ cnt.fetch = 1 /\ cnt.admin = 1

\* ---- C18
\* C18: within resolve the admin-creation call is made only after a readiness
\* poll of the resolved branch has reported ACTIVE; when the wait uses up its
\* budget, resolve raises the timeout error, has made no admin-creation call
\* and leaves the credential store as it was.
C18_State ==
    op = "resolve" =>
        /\ cnt.admin >= 1 => hist.sawActive /\ cnt.poll >= 1
        /\ (pc = "done" /\ cnt.sleep = arg.retries) =>
              result.kind = "raise" /\ result.err = "timeout"
        /\ (pc = "done" /\ result.kind = "raise" /\ result.err = "timeout") =>
              /\ ~hist.sawActive
              /\ cnt.poll = arg.retries
              /\ result.seconds = arg.retries * arg.delay
              /\ cnt.fetch = 0 /\ cnt.admin = 0 /\ cnt.load = 0 /\ cnt.write = 0

C18_Step ==
    /\ (op = "resolve" /\ cnt'.admin > cnt.admin) =>
          hist.sawActive /\ hist.lastPoll = "ACTIVE" /\ loc.branch_id # None
    /\ (op' = "resolve" /\ ~hist'.sawActive) => store' = store

C18_ProvisionWhenReady == []C18_State /\ [][C18_Step]_vars

\* The branch never became ACTIVE: resolve raised the timeout error while the
\* store kept the unusable record it held for the key.
C18_Witness ==
    /\ ResolveDone /\ result.kind = "raise" /\ result.err = "timeout"
    /\ cnt.poll = arg.retries /\ cnt.admin = 0
    /\ Key \in DOMAIN store

\* ---- C19
\* C19: when the branch is ACTIVE and both detail fetches, the one before and
\* the one after the admin call, lack a public host or port, resolve raises
\* the missing-host or missing-port error (not the timeout error) and returns
\* no record; it has then made exactly one admin-creation call and exactly two
\* detail fetches.  No other resolve raises these errors.
C19_IncompleteEndpoints ==
    /\ (ResolveDone /\ cnt.load = 1 /\ hist.firstLacked
          /\ (hist.secondHost = None \/ hist.secondPort = NonePort)) =>
          /\ result.kind = "raise"
          /\ result.err = IF hist.secondHost = None THEN "missing_host" ELSE "missing_port"
          /\ result.rec = NoPayload
          /\ hist.sawActive
          /\ cnt.admin = 1 /\ cnt.fetch = 2
    /\ (op = "resolve" /\ result.kind = "raise"
          /\ result.err \in {"missing_host", "missing_port"}) =>
          /\ pc = "done"
          /\ hist.sawActive /\ hist.firstLacked
          /\ cnt.admin = 1 /\ cnt.fetch = 2

\* The refreshed reply carried a port and still no host: missing-host error.
C19_Witness ==
    /\ ResolveDone /\ result.kind = "raise" /\ result.err = "missing_host"
    /\ hist.firstLacked /\ hist.secondHost = None /\ hist.secondPort = 1234
    /\ cnt.admin = 1 /\ cnt.fetch = 2

\* ---- C20
\* C20: when a get_branch poll of the readiness wait raises a transport error,
\* the wait ends at once with that error: no sleep, no further poll; an
\* enclosing resolve makes no detail fetch, no admin-creation call and no
\* cache write.
C20_State ==
    (op \in {"wait", "resolve"} /\ pc = "done" /\ result.kind = "raise"
        /\ result.err = "transport" /\ cnt.poll = cnt.sleep + 1 /\ cnt.fetch = 0) =>
        /\ ~hist.sawActive
        /\ cnt.admin = 0 /\ cnt.load = 0 /\ cnt.write = 0

C20_Step ==
    /\ (pc = "w_poll" /\ cnt'.poll = cnt.poll + 1 /\ result'.kind = "raise") =>
          /\ pc' = "done"
          /\ result'.err = "transport"
          /\ cnt'.sleep = cnt.sleep
          /\ cnt'.fetch = 0 /\ cnt'.admin = 0 /\ cnt'.write = 0
          /\ store' = store
    /\ pc = "done" => store' = store /\ (pc' = "idle" \/ cnt' = NoCnt)

C20_NoRetry == []C20_State /\ [][C20_Step]_vars

\* The second poll of a resolve's wait raised: one sleep, two polls, nothing
\* after them.
C20_Witness ==
    /\ ResolveDone /\ result.kind = "raise" /\ result.err = "transport"
    /\ cnt.poll = 2 /\ cnt.sleep = 1 /\ hist.lastPoll = "CREATING"
    /\ cnt.fetch = 0 /\ cnt.admin = 0 /\ cnt.write = 0

\* ---- C21
\* C21 as stated: the wait sleeps only between two polls, so it has always
\* slept less often than it has polled.
C21_Original ==
    (op = "wait" /\ cnt.poll >= 1) => cnt.sleep < cnt.poll

\* C21 (amended): _wait_for_branch_active issues at most retries polls; it
\* sleeps delay after every poll that did not report ACTIVE, the final failed
\* poll included, and never after the poll that reports ACTIVE, so a timeout
\* comes after retries polls and retries sleeps; every state but ACTIVE, an
\* explicit failure state too, is treated like CREATING and uses up one poll.
C21_State ==
    op = "wait" =>
        /\ cnt.poll <= arg.retries /\ cnt.sleep <= arg.retries
        /\ cnt.sleep <= cnt.poll
        /\ loc.attempt = cnt.sleep
        /\ pc = "w_sleep" => hist.lastPoll \in BranchStates \ {"ACTIVE"}
                             /\ cnt.sleep = cnt.poll - 1
        /\ (pc = "done" /\ result.kind = "return") =>
              hist.lastPoll = "ACTIVE" /\ cnt.sleep = cnt.poll - 1
        /\ (pc = "done" /\ result.kind = "raise" /\ result.err = "timeout") =>
              /\ cnt.poll = arg.retries /\ cnt.sleep = arg.retries
              /\ ~hist.sawActive

C21_Step ==
    /\ (op = "wait" /\ cnt'.poll = cnt.poll + 1 /\ result'.kind # "raise") =>
          IF hist'.lastPoll = "ACTIVE"
            THEN pc' = "done" /\ result'.kind = "return"
            ELSE pc' = "w_sleep"
    /\ (op = "wait" /\ cnt'.sleep = cnt.sleep + 1) =>
          pc = "w_sleep" /\ cnt'.poll = cnt.poll

C21_PollBudget == []C21_State /\ [][C21_Step]_vars

\* The branch reported FAILED and then CREATING: two polls, two sleeps, then
\* the timeout error.
C21_Witness ==
    /\ op = "wait" /\ pc = "done" /\ result.err = "timeout"
    /\ arg.retries = 2 /\ cnt.poll = 2 /\ cnt.sleep = 2
    /\ hist.lastPoll = "CREATING"


\* ---- C22
\* C22: a resolve that returns with source = "cache" has performed no store
\* and no delete on the credential store, which it leaves unchanged, and has
\* made no control-plane call that changes state (no admin creation, no branch
\* creation, no branch deletion); it has not listed, polled or fetched either.
C22_State ==
    (op = "resolve" /\ result.kind = "return" /\ result.rec.source = "cache") =>
        /\ pc = "done"
        /\ cnt.load = 0 /\ cnt.write = 0
        /\ cnt.admin = 0 /\ cnt.create = 0 /\ cnt.remove = 0
        /\ cnt.list = 0 /\ cnt.poll = 0 /\ cnt.sleep = 0 /\ cnt.fetch = 0

C22_Step ==
    /\ (op = "resolve" /\ op' = "resolve" /\ store' # store) =>
          cnt'.write = cnt.write + 1
    /\ (op = "resolve" /\ result.kind # "return" /\ result'.kind = "return"
        /\ result'.rec.source = "cache") =>
          /\ store' = store /\ written' = written
          /\ pc = "r_cluster" /\ cnt'.read = cnt.read + 1
          /\ cnt'.write = 0

C22_FastPathFrame == []C22_State /\ [][C22_Step]_vars

\* A cache hit on a store that holds records for two keys.
C22_Witness ==
    /\ ResolveDone /\ result.kind = "return" /\ result.rec.source = "cache"
    /\ cnt.read = 1
    /\ \E k1, k2 \in DOMAIN store : k1 # k2


\* ---- C23
\* C23: when the store holds a record for (branchName, clusterId) that lacks
\* host or port, resolve treats it as a miss and goes on to the slow path; a
\* record it then returns is the freshly provisioned one (source "created",
\* the username and password of this call's admin creation, never the cached
\* ones), and the record it writes under that key carries the fresh
\* credential in place of the cached one.
C23_State ==
    (op = "resolve" /\ loc.cachedFound /\ ~HasHostPort(loc.cached)) =>
        /\ result.kind = "return" =>
              /\ result.rec.source = "created"
              /\ cnt.list = 1 /\ cnt.admin = 1 /\ cnt.write = 1
              /\ result.rec.username = loc.admin_info.username
              /\ result.rec.password = loc.admin_info.password
        /\ cnt.write = 1 =>
              /\ Key \in DOMAIN _load_admin_credentials(store)
              /\ _load_admin_credentials(store)[Key].username = loc.admin_info.username
              /\ _load_admin_credentials(store)[Key].password = loc.admin_info.password
              /\ _load_admin_credentials(store)[Key].host = IF loc.host = None THEN "" ELSE loc.host
              /\ _load_admin_credentials(store)[Key].port = loc.port

C23_Step ==
    (op = "resolve" /\ pc = "r_cluster" /\ cnt'.read = cnt.read + 1
     /\ loc'.cachedFound /\ ~HasHostPort(loc'.cached)) =>
        pc' = "r_list" /\ result' = result

C23_UnusableIsMiss == []C23_State /\ [][C23_Step]_vars

\* The cached record had no port and another user's name; the resolve
\* provisioned a new credential, returned it and left it in the store.
C23_Witness ==
    /\ ResolveDone /\ result.kind = "return"
    /\ loc.cachedFound /\ loc.cached.host # "" /\ loc.cached.port = NonePort
    /\ loc.cached.username # result.rec.username
    /\ _load_admin_credentials(store)[Key].username = result.rec.username
    /\ _load_admin_credentials(store)[Key].port = result.rec.port


\* ---- C24
\* C24 as stated: the record loaded under the key of a stored entry has the
\* entry's username, password, host, port and database.
C24_Original ==
    \A k \in DOMAIN last :
        /\ k \in DOMAIN _load_admin_credentials(store)
        /\ _load_admin_credentials(store)[k].username = last[k].username
        /\ _load_admin_credentials(store)[k].password = last[k].password
        /\ _load_admin_credentials(store)[k].host = last[k].host
        /\ _load_admin_credentials(store)[k].port = last[k].port
        /\ _load_admin_credentials(store)[k].database = last[k].database

\* C24 (amended): storing an entry and then loading the store yields, under
\* the entry's (branchName, clusterId) key, a record with the same username,
\* password, port and database, and the same host except that a missing host
\* (None) is loaded as the empty string; neither the row in the store nor the
\* loaded record has the provenance tag (source) that the entry carries.
C24_RoundTrip ==
    \A k \in DOMAIN last :
        /\ "source" \in DOMAIN last[k]
        /\ k \in DOMAIN store /\ "source" \notin DOMAIN store[k]
        /\ k \in DOMAIN _load_admin_credentials(store)
        /\ LET rec == _load_admin_credentials(store)[k]
           IN  /\ "source" \notin DOMAIN rec
               /\ rec.branchName = k[1] /\ rec.clusterId = k[2]
               /\ rec.username = last[k].username
               /\ rec.password = last[k].password
               /\ rec.host = IF last[k].host = None THEN "" ELSE last[k].host
               /\ rec.port = last[k].port
               /\ rec.database = last[k].database

\* One entry was stored without a host and with port 0, another with host and
\* port; each is loaded back under its key.
C24_Witness ==
    \E k1, k2 \in DOMAIN last :
        /\ last[k1].host = None /\ last[k1].port = 0
        /\ _load_admin_credentials(store)[k1].host = ""
        /\ _load_admin_credentials(store)[k1].port = 0
        /\ last[k2].host = "h1" /\ last[k2].port = 1234
        /\ _load_admin_credentials(store)[k2].host = "h1"
        /\ _load_admin_credentials(store)[k2].port = 1234


\* ---- C25
\* C25: reset_branch returns only after a get_branch poll issued after the
\* reset call has observed ACTIVE, and raises the timeout error when no poll
\* of its budget does; delete_branch never enters the readiness wait: it
\* never sleeps, never polls, and issues at most one get_branch call.
C25_State ==
    /\ op = "reset" =>
          /\ cnt.poll >= 1 => cnt.reset = 1
          /\ cnt.reset <= 1 /\ cnt.poll <= MaxRetries
          /\ (pc = "done" /\ result.kind = "return") =>
                /\ cnt.reset = 1 /\ cnt.poll >= 1
                /\ hist.sawActive /\ hist.lastPoll = "ACTIVE"
          /\ (pc = "done" /\ cnt.reset = 1 /\ ~hist.sawActive) =>
                /\ result.kind = "raise"
                /\ result.err = "timeout" => cnt.poll = MaxRetries
          /\ pc = "done" => result.kind \in {"return", "raise"}
    /\ op = "delete" =>
          /\ cnt.sleep = 0 /\ cnt.poll = 0 /\ cnt.fetch = 0
          /\ cnt.lookup <= 1
          /\ pc \notin {"w_poll", "w_sleep"}

C25_Step ==
    /\ (op = "reset" /\ cnt'.poll = cnt.poll + 1) => cnt.reset = 1
    /\ (op = "reset" /\ pc # "done" /\ pc' = "done" /\ result'.kind = "return") =>
          cnt'.poll = cnt.poll + 1 /\ hist'.lastPoll = "ACTIVE"
    /\ (op = "delete" /\ op' = "delete") => cnt'.sleep = 0 /\ cnt'.poll = 0

C25_ResetWaits == []C25_State /\ [][C25_Step]_vars

\* A reset whose first poll reported CREATING and whose second reported
\* ACTIVE has returned.
C25_Witness ==
    /\ op = "reset" /\ pc = "done" /\ result.kind = "return"
    /\ cnt.reset = 1 /\ cnt.poll = 2 /\ cnt.sleep = 1 /\ hist.sawActive


\* ---- C26
\* C26: a run_sql_on_branch call opens at most one database connection, and
\* exactly one once resolve has returned a record: the connection is opened
\* only after resolve has returned a record with host and port, with that
\* record's host, port, username and password; the statement runs on the
\* connection opened in this call, never on the pooled client of an earlier
\* call, which the call leaves as it was; when resolve raises, no connection
\* is opened and the call ends with resolve's error.
C26_State ==
    op = "run_sql" =>
        /\ cnt.connect <= 1
        /\ cnt.connect = 1 =>
              /\ HasHostPort(hist.creds)
              /\ hist.creds.source \in {"cache", "created"}
        /\ (pc = "q_exec" \/ hist.ranAs # None) =>
              /\ cnt.connect = 1
              /\ loc.client.kind = "branch"
              /\ loc.client.host = hist.creds.host
              /\ loc.client.port = hist.creds.port
              /\ loc.client.username = hist.creds.username
              /\ loc.client.password = hist.creds.password
        /\ hist.ranAs # None =>
              /\ hist.stmtOn = loc.client
              /\ hist.stmtOn # _tidb_client
              /\ hist.ranAs = IF IsSelect(arg.sql) THEN "query" ELSE "execute"
        /\ (pc = "done" /\ result.kind = "return") => hist.ranAs # None
        /\ (pc = "done" /\ result.kind = "raise"
            /\ result.err \notin {"connect", "sql"}) => cnt.connect = 0
        /\ pc = "q_connect" => result.kind = "return" /\ HasHostPort(result.rec)

C26_Step ==
    /\ (op = "run_sql" /\ op' = "run_sql" /\ cnt'.connect = cnt.connect + 1) =>
          /\ pc = "q_connect" /\ cnt.connect = 0
          /\ result.kind = "return" /\ HasHostPort(result.rec)
    /\ (op = "run_sql" /\ pc \notin {"q_connect", "q_exec", "done"}
        /\ result'.kind = "raise") =>
          pc' = "done" /\ cnt'.connect = 0
    /\ (op = "run_sql" /\ pc = "q_connect") => result.kind = "return"
    /\ op' = "run_sql" => _tidb_client' = _tidb_client

C26_ConnectionPerStatement == []C26_State /\ [][C26_Step]_vars

\* With the pooled main-cluster client open, a run_sql_on_branch call resolved
\* from the cache, opened its own connection and ran a query on it.
C26_Witness ==
    /\ op = "run_sql" /\ pc = "done" /\ result.kind = "return"
    /\ _tidb_client = MainClient
    /\ hist.creds.source = "cache"
    /\ cnt.connect = 1 /\ hist.stmtOn.kind = "branch" /\ hist.ranAs = "query"


\* ---- C27
\* C27: a step that changes the credential store is one rewrite by a store
\* (upsert) or delete of one key k, and it leaves the row of every other key
\* as it was: no other key appears, disappears or changes.  The upsert of a
\* resolve has k = (branch_name, resolved cluster) and leaves a row under k;
\* the delete of delete_branch has k = (displayName, default cluster id),
\* rewrites only when k is present and removes just k; when k is absent
\* delete_branch ends without a rewrite.
C27_Step ==
    /\ store' # store =>
          /\ cnt'.write = cnt.write + 1
          /\ op \in {"resolve", "delete"}
          /\ LET k == IF op = "delete" THEN << loc.display_name, cluster_id >> ELSE Key
             IN  /\ \A k2 \in (DOMAIN store \cup DOMAIN store') \ {k} :
                       /\ k2 \in DOMAIN store /\ k2 \in DOMAIN store'
                       /\ store'[k2] = store[k2]
                 /\ op = "resolve" => k \in DOMAIN store'
                 /\ op = "delete" => k \in DOMAIN store /\ k \notin DOMAIN store'
    /\ (op = "delete" /\ cnt'.write = cnt.write + 1) =>
          /\ << loc.display_name, cluster_id >> \in DOMAIN store
          /\ DOMAIN store' = DOMAIN store \ {<< loc.display_name, cluster_id >>}
    /\ (op = "delete" /\ pc = "d_load"
        /\ << loc.display_name, cluster_id >> \notin DOMAIN store) =>
          /\ pc' = "done" /\ store' = store /\ cnt'.write = 0

C27_State ==
    /\ op = "delete" => cnt.write <= 1
    /\ (op = "delete" /\ pc = "d_write") =>
          /\ << loc.display_name, cluster_id >> \in DOMAIN store
          /\ cluster_id # None

C27_StoreFrame == []C27_State /\ [][C27_Step]_vars

\* delete_branch removed the record of (a, default cluster) and the record of
\* (a, other cluster) is still in the store.
C27_Witness ==
    /\ op = "delete" /\ pc = "done" /\ cnt.write = 1
    /\ << "a", DefaultCluster >> \notin DOMAIN store
    /\ << "a", OtherCluster >> \in DOMAIN store


\* ---- C28
\* C28: when every control-plane call returns or raises, every resolve call
\* ends, by returning a record or raising, and up to then it has made at most
\* one list_branches call, at most retries readiness polls, at most two
\* branch-detail fetches and at most one admin-creation call, whatever branch
\* states the server reports.
C28_Budget ==
    op = "resolve" =>
        /\ cnt.list <= 1
        /\ cnt.poll <= arg.retries
        /\ cnt.fetch <= 2
        /\ cnt.admin <= 1
        /\ pc = "done" => result.kind \in {"return", "raise"}

C28_ResolveTerminates ==
    /\ []C28_Budget
    /\ (op = "resolve" /\ pc # "done") ~> (op = "resolve" /\ pc = "done")

\* A resolve that used its whole budget and returned: one list call, retries
\* polls, two detail fetches, one admin creation.
C28_Witness ==
    /\ ResolveDone /\ result.kind = "return"
    /\ cnt.list = 1 /\ cnt.poll = arg.retries /\ cnt.poll >= 2
    /\ cnt.fetch = 2 /\ cnt.admin = 1

====
